---------------------------- MODULE Spec2Model ----------------------------
(***************************************************************************)
(* Insurance fraud detection: the serving process of src/api/main.py (the   *)
(* model global, load_model and the four request handlers) and the         *)
(* FraudDetectionModel object of src/src/model.py (preprocess_data, train,  *)
(* evaluate, predict, save_model, load_model).                             *)
(*                                                                         *)
(* Numbers.  A probability is the rational k / PScale, carried as the      *)
(* integer k.  Table cells and statistics are rationals <<num, den>> in    *)
(* lowest terms with den > 0; <<0, 0>> is NaN (a missing cell).  Strings    *)
(* that the code inspects (claim_type, categorical cells) are sequences of *)
(* one-character strings, so that lower() and sorting are computed.        *)
(***************************************************************************)
EXTENDS Integers, Sequences, FiniteSets, TLC

VARIABLES
    model,            \* main.py: the global `model` (None or the unpickled object)
    phase,            \* main.py: "imported", "serving" (startup done) or "failed"
    disk,             \* the file models/fraud_detection_model.pkl
    handler,          \* the handler of the last call, "" when its reply is taken
    request,          \* the request body of the last predict_fraud call
    response,         \* what the last handler call returned or raised
    scored,           \* the feature vectors the last call handed to the classifier
    prediction,       \* predict_fraud's local `prediction` of the last call
    probability,      \* predict_fraud's local `probability` of the last call (k of k/PScale)
    self,             \* model.py: the FraudDetectionModel instance
    pkl,              \* the file at the path given to save_model / load_model
    method,           \* the FraudDetectionModel method last called, "" between calls
    returned,         \* what that call returned or raised
    preprocessed,     \* the locals of the last preprocess_data call
    workload          \* which inputs are on hand: "requests", "tables" or "both"

serving == <<model, phase, disk, handler, request, response, scored, prediction, probability>>

training == <<self, pkl, method, returned, preprocessed>>

vars == <<serving, training, workload>>

---------------------------------------------------------------------------
(* Bounds of the model *)

\* resolution of the probabilities the classifier is taken to return
PScale == 30030
\* the probabilities k/PScale with k a multiple of ProbStep are tried ...
ProbStep == 1001
\* ... and every k within Window grid points of a risk threshold
Window == 3
\* the largest number of rows of a table given to train, evaluate or predict
MaxRows == 2

---------------------------------------------------------------------------
(* Arithmetic helpers *)

Abs(x) == IF x < 0 THEN -x ELSE x

\* F of x, with x evaluated once: a local variable of the code and its uses
With(x, F(_)) == F(x)

\* the sequence F(1), ..., F(n)
Tabulate(n, F(_)) == SubSeq([i \in 1..n |-> F(i)], 1, n)

\* round n/d (n >= 0, d > 0) to the nearest integer, ties to the even one:
\* what round(x, 4) and the format spec .1f do to the value they are given
RoundHalfEven(n, d) ==
    LET q == n \div d
        r == n % d
    IN  IF 2 * r < d THEN q
        ELSE IF 2 * r > d THEN q + 1
        ELSE IF q % 2 = 0 THEN q ELSE q + 1

---------------------------------------------------------------------------
(* Strings: str.lower() *)

UpperCase == <<"A","B","C","D","E","F","G","H","I","J","K","L","M",
               "N","O","P","Q","R","S","T","U","V","W","X","Y","Z">>
LowerCase == <<"a","b","c","d","e","f","g","h","i","j","k","l","m",
               "n","o","p","q","r","s","t","u","v","w","x","y","z">>

LowerChar(c) ==
    IF \E i \in 1..Len(UpperCase) : UpperCase[i] = c
    THEN LowerCase[CHOOSE i \in 1..Len(UpperCase) : UpperCase[i] = c]
    ELSE c

\* lower leaving the string as it is
lowerKeepingCase(s) == s

lower(s) == Tabulate(Len(s), LAMBDA i : LowerChar(s[i]))

AUTO   == <<"a","u","t","o">>
HOME   == <<"h","o","m","e">>
HEALTH == <<"h","e","a","l","t","h">>

---------------------------------------------------------------------------
(* main.py: request schema *)

\* ClaimData.Config.example
ExampleClaim ==
    [claim_amount |-> 5000, claim_age |-> 30, claim_type |-> AUTO,
     claimant_age |-> 45, policy_duration |-> 5, monthly_premium |-> 100,
     witnesses |-> 1, police_report |-> 1, injury_claim |-> 0,
     property_claim |-> 1, vehicle_claim |-> 1]

\* claim_type is any str
ClaimTypes ==
    {AUTO, HOME, HEALTH,
     <<"A","U","T","O">>, <<"A","u","t","o">>, <<"H","o","m","e">>,
     <<"H","E","A","L","T","H">>, <<"h","e","a","l","T","h">>,
     <<"o","t","h","e","r">>, <<"s","c","o","o","t","e","r">>,
     <<"a","u","t","o"," ">>, <<"a","u","t","o","s">>, <<>>}

NumericFields ==
    {"claim_amount", "claim_age", "claimant_age", "policy_duration",
     "monthly_premium", "witnesses", "police_report", "injury_claim",
     "property_claim", "vehicle_claim"}

\* The schema declares types only (float, int): any number of the type is accepted.
FieldValues(f) ==
    CASE f \in {"police_report", "injury_claim", "property_claim", "vehicle_claim"}
            -> {-1, 0, 1, 2}
      [] f = "claimant_age" -> {-1, 0, 18, 45, 100, 200}
      [] f = "policy_duration" -> {-1, 0, 1, 5}
      [] OTHER -> {-1, 0, 1}

\* the example claim with its type replaced, or with one numeric field replaced
Claims ==
    {[ExampleClaim EXCEPT !.claim_type = t] : t \in ClaimTypes}
    \cup UNION {{[ExampleClaim EXCEPT ![f] = v] : v \in FieldValues(f)} : f \in NumericFields}
    \cup {[ExampleClaim EXCEPT !.claim_type = t, !.claim_amount = -1] :
             t \in {HOME, <<"s","c","o","o","t","e","r">>}}


---------------------------------------------------------------------------
(* main.py: the classifier as the serving process sees it *)

None == [kind |-> "None"]

\* an unpickled classifier: opaque but for the width of the vectors it was fitted on
Classifier(n) == [kind |-> "classifier", n_features_in |-> n]

\* the width of the serving vector, and the width FraudDetectionModel.train gives
\* a classifier fitted on a table with the ClaimData fields (see feature_columns below)
Artifacts == {Classifier(13), Classifier(11)}

NoFile == [kind |-> "NoFile"]

\* what the file can hold: nothing, a pickled classifier, or a pickled None
\* (save_model called before train dumps self.model = None)
DiskContents == {NoFile, None} \cup Artifacts

\* the probabilities the classifier is taken to return, as k of k/PScale
Probs ==
    {k \in 0..PScale :
        \/ k % ProbStep = 0
        \/ k = PScale
        \/ Abs(10 * k - 3 * PScale) <= 10 * Window
        \/ Abs(10 * k - 7 * PScale) <= 10 * Window}

\* the class labels predict returns
Classes == {0, 1}

NoValue == -1

---------------------------------------------------------------------------
(* main.py: predict_fraud, piece by piece *)

ClaimTypeFlag(claim, t) == IF lower(claim.claim_type) = t THEN 1 ELSE 0

\* lines 120-134: what each position of the vector holds, in order
ServingFeatureOrder ==
    <<"claim_amount", "claim_age", "claimant_age", "policy_duration",
      "monthly_premium", "witnesses", "police_report", "injury_claim",
      "property_claim", "vehicle_claim",
      "claim_type_auto", "claim_type_home", "claim_type_health">>

FeatureValue(claim, name) ==
    CASE name = "claim_type_auto" -> ClaimTypeFlag(claim, AUTO)
      [] name = "claim_type_home" -> ClaimTypeFlag(claim, HOME)
      [] name = "claim_type_health" -> ClaimTypeFlag(claim, HEALTH)
      [] OTHER -> claim[name]

\* lines 120-134: the vector handed to the classifier
FeatureVector(claim) ==
    Tabulate(Len(ServingFeatureOrder), LAMBDA i : FeatureValue(claim, ServingFeatureOrder[i]))

\* lines 141-146 compare with 0.3 and 0.7, here 3/10 and 7/10
MediumFrom == 3
HighFrom == 7
ThresholdDen == 10

\* RiskLevel with a probability on a threshold left in the tier below
RiskLevelClosedAbove(k) ==
    IF ThresholdDen * k <= MediumFrom * PScale THEN "Low"
    ELSE IF ThresholdDen * k <= HighFrom * PScale THEN "Medium"
    ELSE "High"

RiskLevel(k) ==
    IF ThresholdDen * k < MediumFrom * PScale THEN "Low"
    ELSE IF ThresholdDen * k < HighFrom * PScale THEN "Medium"
    ELSE "High"

\* line 148
FraudDetected(pred) == pred = 1

\* Message carrying p * 100 in both branches
MessageOfFraudShare(fraud_detected, k) ==
    [text |-> IF fraud_detected THEN "Fraud Alert! Confidence"
              ELSE "Claim appears legitimate. Confidence",
     tenths |-> RoundHalfEven(k * 1000, PScale)]

\* lines 151-154: the text and the percentage it carries, in tenths of a percent
Message(fraud_detected, k) ==
    IF fraud_detected
    THEN [text |-> "Fraud Alert! Confidence", tenths |-> RoundHalfEven(k * 1000, PScale)]
    ELSE [text |-> "Claim appears legitimate. Confidence",
          tenths |-> RoundHalfEven((PScale - k) * 1000, PScale)]

\* Round4 cutting the digits after the fourth off
Round4Truncated(k) == (k * 10000) \div PScale

\* line 158: round(probability, 4), in ten-thousandths
Round4(k) == RoundHalfEven(k * 10000, PScale)

\* lines 156-161
PredictionResponse(pred, k) ==
    [fraud_detected |-> FraudDetected(pred),
     fraud_probability |-> Round4(k),
     risk_level |-> RiskLevel(k),
     message |-> Message(FraudDetected(pred), k)]

NoResponse == [status |-> 0, detail |-> "", body |-> <<>>]

Ok(body) == [status |-> 200, detail |-> "", body |-> body]

HTTPException(status, detail) == [status |-> status, detail |-> detail, body |-> <<>>]

\* model.predict / model.predict_proba raise when the vector is not as wide
\* as the vectors the classifier was fitted on
Accepts(m, features) == Len(features) = m.n_features_in

(* Lines 118-164, the try block, for a model global m that is not None: the
   request body claim, and the class pred and probability k the classifier
   returns for the vector when it accepts it. *)
TryToScore(m, claim, pred, k) ==
    With(FeatureVector(claim), LAMBDA features :
        IF ~Accepts(m, features)
        THEN [response |-> HTTPException(400, "Prediction error"),
              scored |-> <<features>>,
              prediction |-> NoValue, probability |-> NoValue]
        ELSE [response |-> Ok(PredictionResponse(pred, k)),
              scored |-> <<features, features>>,
              prediction |-> pred, probability |-> k])

\* predict_fraud without lines 115-116: None.predict raises inside the try block
PredictFraudUnguarded(m, claim, pred, k) ==
    IF m = None
    THEN [response |-> HTTPException(400, "Prediction error"),
          scored |-> <<>>, prediction |-> NoValue, probability |-> NoValue]
    ELSE TryToScore(m, claim, pred, k)

\* the whole handler, lines 115-164
PredictFraudResult(m, claim, pred, k) ==
    IF m = None
    THEN [response |-> HTTPException(500, "Model not loaded"),
          scored |-> <<>>, prediction |-> NoValue, probability |-> NoValue]
    ELSE TryToScore(m, claim, pred, k)

---------------------------------------------------------------------------
(* Rationals <<num, den>>, den > 0, in lowest terms; NaN is <<0, 0>> *)

RECURSIVE GCD(_, _)
GCD(a, b) == IF b = 0 THEN a ELSE GCD(b, a % b)

NaN == <<0, 0>>

IsNaN(x) == x[2] = 0

Rat(n, d) == With(GCD(Abs(n), d), LAMBDA g : <<n \div g, d \div g>>)

RatAdd(x, y) == Rat(x[1] * y[2] + y[1] * x[2], x[2] * y[2])

RatSub(x, y) == Rat(x[1] * y[2] - y[1] * x[2], x[2] * y[2])

RatMul(x, y) == Rat(x[1] * y[1], x[2] * y[2])

RatLess(x, y) == x[1] * y[2] < y[1] * x[2]

RECURSIVE RatSum(_)
RatSum(xs) == IF xs = <<>> THEN Rat(0, 1) ELSE RatAdd(Head(xs), RatSum(Tail(xs)))

---------------------------------------------------------------------------
(* Strings: the order sorted() and numpy.unique put them in *)

CodePoints == <<" ">> \o UpperCase \o LowerCase

Ord(c) == CHOOSE i \in 1..Len(CodePoints) : CodePoints[i] = c

RECURSIVE StrLess(_, _)
StrLess(a, b) ==
    IF b = <<>> THEN FALSE
    ELSE IF a = <<>> THEN TRUE
    ELSE IF Head(a) # Head(b) THEN Ord(Head(a)) < Ord(Head(b))
    ELSE StrLess(Tail(a), Tail(b))

RECURSIVE Sorted(_)
Sorted(S) ==
    IF S = {} THEN <<>>
    ELSE With(CHOOSE x \in S : \A y \in S \ {x} : StrLess(x, y),
              LAMBDA m : <<m>> \o Sorted(S \ {m}))

IndexOf(seq, x) == CHOOSE i \in 1..Len(seq) : seq[i] = x

Range(seq) == {seq[i] : i \in 1..Len(seq)}

---------------------------------------------------------------------------
(* pandas: a DataFrame is its columns in order, their dtypes and its rows,
   a row being its cells in the order of the columns *)

Column(X, j) == Tabulate(Len(X.rows), LAMBDA i : X.rows[i][j])

SetColumn(X, j, cells, dtype) ==
    [X EXCEPT !.dtypes[j] = dtype,
              !.rows = Tabulate(Len(X.rows), LAMBDA i : [X.rows[i] EXCEPT ![j] = cells[i]])]

\* X.select_dtypes(include=['object']).columns, as positions
ObjectColumns(X) ==
    SelectSeq(Tabulate(Len(X.columns), LAMBDA j : j), LAMBDA j : X.dtypes[j] = "object")

Present(cells) == SelectSeq(cells, LAMBDA x : ~IsNaN(x))

\* Series.mean(): the mean of the cells that are present, NaN when there is none
Mean(cells) ==
    With(Present(cells), LAMBDA xs :
        IF xs = <<>> THEN NaN
        ELSE RatMul(RatSum(xs), Rat(1, Len(xs))))

\* X.mean(numeric_only=True): a mean per numeric column (NaN stands for no entry)
ColumnMeans(X) ==
    Tabulate(Len(X.columns),
             LAMBDA j : IF X.dtypes[j] = "number" THEN Mean(Column(X, j)) ELSE NaN)

\* X.fillna(means): a missing cell of a column that has a mean gets that mean
FillNa(X, means) ==
    [X EXCEPT !.rows =
        Tabulate(Len(X.rows), LAMBDA i :
            Tabulate(Len(X.columns), LAMBDA j :
                IF X.dtypes[j] = "number" /\ IsNaN(X.rows[i][j])
                THEN means[j] ELSE X.rows[i][j]))]

---------------------------------------------------------------------------
(* sklearn: LabelEncoder, StandardScaler, DecisionTreeClassifier *)

\* LabelEncoder().fit(values): classes_ are the distinct values, sorted
LabelEncoderFit(values) == [classes_ |-> Sorted(Range(values))]

LabelEncoderKnows(le, values) == Range(values) \subseteq Range(le.classes_)

\* le.transform(values): each value's position in classes_, from 0
LabelEncoderTransform(le, values) ==
    Tabulate(Len(values), LAMBDA i : Rat(IndexOf(le.classes_, values[i]) - 1, 1))

Unfitted == [fitted |-> FALSE]

\* the population variance of cells that are all present
Squared(x) == RatMul(x, x)

Variance(cells) ==
    With(Mean(cells), LAMBDA m :
        RatMul(RatSum(Tabulate(Len(cells), LAMBDA i : Squared(RatSub(cells[i], m)))),
               Rat(1, Len(cells))))

\* StandardScaler().fit(X): per column the mean and the variance of X
ScalerFit(X) ==
    [fitted |-> TRUE,
     n_features_in_ |-> Len(X.columns),
     mean_ |-> Tabulate(Len(X.columns), LAMBDA j : Mean(Column(X, j))),
     var_ |-> Tabulate(Len(X.columns), LAMBDA j : Variance(Column(X, j)))]

\* A standardized cell (x - mean) / sqrt(var), with a zero variance taken as 1,
\* is kept as the pair of x - mean and the variance it is divided by the root of.
Standardize(x, mean, var) ==
    [centered |-> IF IsNaN(x) THEN NaN ELSE RatSub(x, mean),
     over_var |-> IF var = Rat(0, 1) THEN Rat(1, 1) ELSE var]

\* scaler.transform(X): the matrix of standardized cells, row by row
ScalerTransform(scaler, X) ==
    Tabulate(Len(X.rows), LAMBDA i :
        Tabulate(Len(X.columns), LAMBDA j :
            Standardize(X.rows[i][j], scaler.mean_[j], scaler.var_[j])))

\* line 71
min_samples_leaf == 5

(* DecisionTreeClassifier(..., min_samples_leaf=5, class_weight='balanced').fit:
   a table of fewer than 2 * min_samples_leaf rows cannot be split, so the tree
   is its root leaf.  Balanced weights give every class present the same weight
   in it. *)
DecisionTreeFit(X_scaled, width, y) ==
    [kind |-> "DecisionTreeClassifier",
     n_features_in_ |-> width,
     classes_ |-> With(Range(y), LAMBDA S :
                      Tabulate(Cardinality(S), LAMBDA i :
                          CHOOSE c \in S : Cardinality({d \in S : d < c}) = i - 1))]

\* tree.predict(rows): the first of the equally weighted classes, for every row
TreePredict(tree, n) == Tabulate(n, LAMBDA i : tree.classes_[1])

\* tree.predict_proba(rows): one column per class
TreePredictProba(tree, n) ==
    Tabulate(n, LAMBDA i :
        Tabulate(Len(tree.classes_), LAMBDA c : Rat(1, Len(tree.classes_))))

---------------------------------------------------------------------------
(* model.py: FraudDetectionModel *)

\* feature_columns = None
NoColumns == <<>>

\* the empty dict
EmptyDict == [c \in {} |-> <<>>]

\* lines 26-31: __init__
NewFraudDetectionModel ==
    [model |-> None,
     scaler |-> Unfitted,
     label_encoders |-> EmptyDict,
     feature_columns |-> NoColumns]

(* Lines 42-49, the loop over the categorical columns from position i on.
   st carries the copy of X, the encoders so far, and whether transform raised. *)
RECURSIVE EncodeCategoricals(_, _, _, _)
EncodeCategoricals(st, cols, i, fit) ==
    IF i > Len(cols) \/ st.raised THEN st
    ELSE With(st.X.columns[cols[i]], LAMBDA col :
         With(Column(st.X, cols[i]), LAMBDA values :
             IF fit
             THEN With(LabelEncoderFit(values), LAMBDA le :
                      EncodeCategoricals(
                          [st EXCEPT
                              !.X = SetColumn(st.X, cols[i],
                                              LabelEncoderTransform(le, values), "number"),
                              !.label_encoders = (col :> le) @@ st.label_encoders],
                          cols, i + 1, fit))
             ELSE IF col \in DOMAIN st.label_encoders
             THEN IF LabelEncoderKnows(st.label_encoders[col], values)
                  THEN EncodeCategoricals(
                          [st EXCEPT !.X = SetColumn(st.X, cols[i],
                               LabelEncoderTransform(st.label_encoders[col], values), "number")],
                          cols, i + 1, fit)
                  ELSE [st EXCEPT !.raised = TRUE]
             ELSE EncodeCategoricals(st, cols, i + 1, fit)))

\* line 52: the means the missing cells are filled with
FillValues(me, X) == ColumnMeans(X)

Raised(me, error) ==
    [raised |-> TRUE, error |-> error, self |-> me,
     X_filled |-> <<>>, X_scaled |-> <<>>, columns |-> <<>>]

(* Lines 33-60.  The result carries the instance as the call leaves it, the
   table after line 52 and the two values returned. *)
preprocess_data(me, X, fit) ==
    With(EncodeCategoricals(
             [X |-> X, label_encoders |-> me.label_encoders, raised |-> FALSE],
             ObjectColumns(X), 1, fit), LAMBDA enc :
    With([me EXCEPT !.label_encoders = enc.label_encoders], LAMBDA me1 :
    With(FillNa(enc.X, FillValues(me1, enc.X)), LAMBDA X_filled :
        IF enc.raised THEN Raised(me1, "ValueError")
        ELSE IF fit
        THEN With(ScalerFit(X_filled), LAMBDA scaler :
                 [raised |-> FALSE, error |-> "",
                  self |-> [me1 EXCEPT !.feature_columns = X_filled.columns,
                                       !.scaler = scaler],
                  X_filled |-> X_filled,
                  X_scaled |-> ScalerTransform(scaler, X_filled),
                  columns |-> X_filled.columns])
        ELSE IF ~me1.scaler.fitted THEN Raised(me1, "NotFittedError")
        ELSE IF ObjectColumns(X_filled) # <<>> THEN Raised(me1, "ValueError")
        ELSE IF Len(X_filled.columns) # me1.scaler.n_features_in_ THEN Raised(me1, "ValueError")
        ELSE [raised |-> FALSE, error |-> "",
              self |-> me1,
              X_filled |-> X_filled,
              X_scaled |-> ScalerTransform(me1.scaler, X_filled),
              columns |-> X_filled.columns])))

NoCall == [kind |-> "NoCall"]

Raise(error) == [kind |-> "raised", error |-> error]

NotPreprocessed == [called |-> FALSE]

Locals(X, fit, r) ==
    [called |-> TRUE, fit |-> fit, raised |-> r.raised, X |-> X,
     X_filled |-> r.X_filled, X_scaled |-> r.X_scaled, columns |-> r.columns]

\* lines 62-77
TrainResult(me, X, y) ==
    With(preprocess_data(me, X, TRUE), LAMBDA r :
        IF r.raised
        THEN [self |-> r.self, returned |-> Raise(r.error), locals |-> Locals(X, TRUE, r)]
        ELSE [self |-> [r.self EXCEPT !.model =
                            DecisionTreeFit(r.X_scaled, Len(r.columns), y)],
              returned |-> [kind |-> "None"],
              locals |-> Locals(X, TRUE, r)])

\* the rows whose label is t and whose prediction is p
Count(y_test, y_pred, t, p) ==
    Cardinality({i \in 1..Len(y_test) : y_test[i] = t /\ y_pred[i] = p})

\* roc_auc_score: the pairs of a positive and a negative row that are ranked
\* right, each counted twice, a tie counting once
Ranked(y_test, y_pred_proba) ==
    With({q \in (1..Len(y_test)) \X (1..Len(y_test)) :
              y_test[q[1]] = 1 /\ y_test[q[2]] = 0}, LAMBDA mixed :
        2 * Cardinality({q \in mixed : RatLess(y_pred_proba[q[2]], y_pred_proba[q[1]])})
        + Cardinality({q \in mixed : y_pred_proba[q[1]] = y_pred_proba[q[2]]}))

Scores(n, tn, fp, fn, tp, ranked) ==
    [kind |-> "metrics",
     accuracy |-> Rat(tp + tn, n),
     precision |-> IF tp + fp = 0 THEN Rat(0, 1) ELSE Rat(tp, tp + fp),
     recall |-> IF tp + fn = 0 THEN Rat(0, 1) ELSE Rat(tp, tp + fn),
     f1_score |-> IF 2 * tp + fp + fn = 0 THEN Rat(0, 1)
                  ELSE Rat(2 * tp, 2 * tp + fp + fn),
     roc_auc |-> Rat(ranked, 2 * (tp + fn) * (fp + tn)),
     confusion_matrix |-> <<<<tn, fp>>, <<fn, tp>>>>]

\* accuracy_score ... confusion_matrix of lines 88-95, for labels 0 and 1
Metrics(y_test, y_pred, y_pred_proba) ==
    Scores(Len(y_test),
           Count(y_test, y_pred, 0, 0), Count(y_test, y_pred, 0, 1),
           Count(y_test, y_pred, 1, 0), Count(y_test, y_pred, 1, 1),
           Ranked(y_test, y_pred_proba))

\* line 86: predict_proba(X)[:, 1]
SecondColumn(proba) == Tabulate(Len(proba), LAMBDA i : proba[i][2])

\* evaluate calling preprocess_data with fit=True, as train does
EvaluateRefitting(me, X_test, y_test) == TrainResult(me, X_test, y_test)

\* lines 79-106
EvaluateResult(me, X_test, y_test) ==
    With(preprocess_data(me, X_test, FALSE), LAMBDA r :
        IF r.raised
        THEN [self |-> r.self, returned |-> Raise(r.error), locals |-> Locals(X_test, FALSE, r)]
        ELSE IF r.self.model = None
        THEN [self |-> r.self, returned |-> Raise("AttributeError"),
              locals |-> Locals(X_test, FALSE, r)]
        ELSE IF Len(r.self.model.classes_) < 2
        THEN [self |-> r.self, returned |-> Raise("IndexError"),
              locals |-> Locals(X_test, FALSE, r)]
        ELSE IF Cardinality(Range(y_test)) < 2
        THEN [self |-> r.self, returned |-> Raise("ValueError"),
              locals |-> Locals(X_test, FALSE, r)]
        ELSE [self |-> r.self,
              returned |-> Metrics(y_test,
                               TreePredict(r.self.model, Len(r.X_scaled)),
                               SecondColumn(TreePredictProba(r.self.model, Len(r.X_scaled)))),
              locals |-> Locals(X_test, FALSE, r)])

\* lines 108-116
PredictResult(me, X) ==
    With(preprocess_data(me, X, FALSE), LAMBDA r :
        IF r.raised
        THEN [self |-> r.self, returned |-> Raise(r.error), locals |-> Locals(X, FALSE, r)]
        ELSE IF r.self.model = None
        THEN [self |-> r.self, returned |-> Raise("AttributeError"),
              locals |-> Locals(X, FALSE, r)]
        ELSE [self |-> r.self,
              returned |-> [kind |-> "predictions",
                            predictions |-> TreePredict(r.self.model, Len(r.X_scaled)),
                            probabilities |-> TreePredictProba(r.self.model, Len(r.X_scaled))],
              locals |-> Locals(X, FALSE, r)])

\* lines 118-123: joblib.dump(self.model, path)
Dumped(me) == me.model

\* lines 125-130: joblib.load(path), the object the file holds
LoadedFrom(file) ==
    IF file = NoFile THEN Raise("FileNotFoundError")
    ELSE [kind |-> "loaded", object |-> file]

(* obj.predict(X) and obj.predict_proba(X) for the object load_model returned:
   FraudDetectionModel.predict when it is an instance; sklearn's own predict on
   the table as it is when it is a DecisionTreeClassifier, which raises on a
   table that holds strings or is not as wide as the fitted one. *)
PredictWith(obj, X) ==
    IF "feature_columns" \in DOMAIN obj THEN PredictResult(obj, X).returned
    ELSE IF obj = None THEN Raise("AttributeError")
    ELSE IF ObjectColumns(X) # <<>> \/ Len(X.columns) # obj.n_features_in_
    THEN Raise("ValueError")
    ELSE [kind |-> "predictions",
          predictions |-> TreePredict(obj, Len(X.rows)),
          probabilities |-> TreePredictProba(obj, Len(X.rows))]

---------------------------------------------------------------------------
(* The tables given to train, evaluate and predict *)

\* a table with the ClaimData fields (main.py lines 38-49), in their order
RecordColumns ==
    <<"claim_amount", "claim_age", "claim_type", "claimant_age",
      "policy_duration", "monthly_premium", "witnesses", "police_report",
      "injury_claim", "property_claim", "vehicle_claim">>

\* a row of such a table; amount is the claim_amount cell, NaN when missing
RecordRow(claim, amount) ==
    Tabulate(Len(RecordColumns), LAMBDA j :
        IF RecordColumns[j] = "claim_type" THEN claim.claim_type
        ELSE IF RecordColumns[j] = "claim_amount" THEN amount
        ELSE Rat(claim[RecordColumns[j]], 1))

\* a row of a table that has the serving vector's columns
OneHotRow(claim, amount) ==
    Tabulate(Len(ServingFeatureOrder), LAMBDA j :
        IF ServingFeatureOrder[j] = "claim_amount" THEN amount
        ELSE Rat(FeatureValue(claim, ServingFeatureOrder[j]), 1))

DataFrame(columns, rows) ==
    [columns |-> columns,
     dtypes |-> Tabulate(Len(columns), LAMBDA j :
                    IF columns[j] = "claim_type" THEN "object" ELSE "number"),
     rows |-> SubSeq(rows, 1, Len(rows))]

SCOOTER == <<"s","c","o","o","t","e","r">>

\* rows: a claim_amount that is missing, or 1000, or 5000 on a claim of another type
RecordRows ==
    {RecordRow(ExampleClaim, a) : a \in {NaN, Rat(1000, 1)}}
    \cup {RecordRow([ExampleClaim EXCEPT !.claim_type = SCOOTER], Rat(5000, 1))}

OneHotRows == {OneHotRow(ExampleClaim, Rat(5000, 1))}

SeqsUpTo(S, n) == UNION {[1..m -> S] : m \in 1..n}

\* every column of a table has a cell that is present
NoEmptyColumn(rows) == \E i \in 1..Len(rows) : ~IsNaN(rows[i][1])

Tables ==
    {DataFrame(RecordColumns, rows) :
        rows \in {r \in SeqsUpTo(RecordRows, MaxRows) : NoEmptyColumn(r)}}
    \cup {DataFrame(ServingFeatureOrder, rows) : rows \in SeqsUpTo(OneHotRows, 1)}

\* a label for each row, and fewer rows than a split needs
WellFormed(d) == Len(d.y) = Len(d.X.rows) /\ Len(d.y) < 2 * min_samples_leaf

Datasets ==
    {e : e \in {d \in {[X |-> X, y |-> y] : X \in Tables, y \in SeqsUpTo(Classes, MaxRows)} :
                    WellFormed(d)}}

---------------------------------------------------------------------------
(* The inputs on hand *)

FewClaims == {ExampleClaim, [ExampleClaim EXCEPT !.claim_type = SCOOTER]}

FewProbs == {k \in Probs : k % (15 * ProbStep) = 0}

FewDatasets ==
    {e : e \in {d \in Datasets :
        /\ d.y \in {<<1>>, <<0, 1>>}
        /\ d.X.columns = RecordColumns
        /\ \A i \in 1..Len(d.y) : d.X.rows[i][1] # Rat(5000, 1)}}

ClaimsOnHand == IF workload = "both" THEN FewClaims ELSE Claims

ProbsOnHand == IF workload = "both" THEN FewProbs ELSE Probs

DatasetsOnHand == IF workload = "both" THEN FewDatasets ELSE Datasets

---------------------------------------------------------------------------
(* main.py: the operations of the serving process *)

Alive == phase # "failed"

Idle == handler = ""

NoRequest == <<>>

\* lines 73-84: the startup hook
LoadModelResult(file) ==
    IF file = NoFile
    THEN [model |-> None, phase |-> "failed"]
    ELSE [model |-> file, phase |-> "serving"]

load_model ==
    /\ phase = "imported"
    /\ Idle
    /\ model' = LoadModelResult(disk).model
    /\ phase' = LoadModelResult(disk).phase
    /\ UNCHANGED <<disk, handler, request, response, scored, prediction, probability, training, workload>>

predict_fraud ==
    /\ Alive
    /\ Idle
    /\ \E claim \in ClaimsOnHand, pred \in Classes, k \in ProbsOnHand :
          \E r \in {PredictFraudResult(model, claim, pred, k)} :
              /\ handler' = "predict_fraud"
              /\ request' = claim
              /\ response' = r.response
              /\ scored' = r.scored
              /\ prediction' = r.prediction
              /\ probability' = r.probability
    /\ UNCHANGED <<model, phase, disk, training, workload>>

\* lines 86-93
read_root ==
    /\ Alive
    /\ Idle
    /\ handler' = "read_root"
    /\ request' = NoRequest
    /\ response' = Ok([status |-> "healthy"])
    /\ scored' = <<>>
    /\ prediction' = NoValue
    /\ probability' = NoValue
    /\ UNCHANGED <<model, phase, disk, training, workload>>

\* lines 95-102
health_check ==
    /\ Alive
    /\ Idle
    /\ handler' = "health_check"
    /\ request' = NoRequest
    /\ response' = Ok([status |-> "operational", model_loaded |-> model # None])
    /\ scored' = <<>>
    /\ prediction' = NoValue
    /\ probability' = NoValue
    /\ UNCHANGED <<model, phase, disk, training, workload>>

\* lines 166-182
get_info ==
    /\ Alive
    /\ Idle
    /\ handler' = "get_info"
    /\ request' = NoRequest
    /\ response' = Ok([api_name |-> "Insurance Fraud Detection ML API"])
    /\ scored' = <<>>
    /\ prediction' = NoValue
    /\ probability' = NoValue
    /\ UNCHANGED <<model, phase, disk, training, workload>>

\* the caller takes the reply; the handlers are synchronous
Return ==
    /\ ~Idle
    /\ handler' = ""
    /\ request' = NoRequest
    /\ response' = NoResponse
    /\ scored' = <<>>
    /\ prediction' = NoValue
    /\ probability' = NoValue
    /\ UNCHANGED <<model, phase, disk, training, workload>>

---------------------------------------------------------------------------
(* model.py: the operations on the instance *)

Ready == method = ""

train ==
    /\ Ready
    /\ method' = "train"
    /\ \E d \in DatasetsOnHand :
          \E r \in {TrainResult(self, d.X, d.y)} :
              /\ self' = r.self
              /\ returned' = r.returned
              /\ preprocessed' = r.locals
    /\ UNCHANGED <<pkl, serving, workload>>

evaluate ==
    /\ Ready
    /\ method' = "evaluate"
    /\ \E d \in DatasetsOnHand :
          \E r \in {EvaluateResult(self, d.X, d.y)} :
              /\ self' = r.self
              /\ returned' = r.returned
              /\ preprocessed' = r.locals
    /\ UNCHANGED <<pkl, serving, workload>>

predict ==
    /\ Ready
    /\ method' = "predict"
    /\ \E d \in DatasetsOnHand :
          \E r \in {PredictResult(self, d.X)} :
              /\ self' = r.self
              /\ returned' = r.returned
              /\ preprocessed' = r.locals
    /\ UNCHANGED <<pkl, serving, workload>>

save_model ==
    /\ Ready
    /\ method' = "save_model"
    /\ pkl' = Dumped(self)
    /\ returned' = [kind |-> "None"]
    /\ UNCHANGED <<self, preprocessed, serving, workload>>

FraudDetectionModel_load_model ==
    /\ Ready
    /\ method' = "load_model"
    /\ returned' = LoadedFrom(pkl)
    /\ UNCHANGED <<self, pkl, preprocessed, serving, workload>>

\* the caller of the instance goes on with the value returned
Continue ==
    /\ ~Ready
    /\ method' = ""
    /\ returned' = NoCall
    /\ preprocessed' = NotPreprocessed
    /\ UNCHANGED <<self, pkl, serving, workload>>

---------------------------------------------------------------------------
(* Specifications *)

ServingInit ==
    /\ model = None
    /\ phase = "imported"
    /\ disk \in DiskContents
    /\ handler = ""
    /\ request = NoRequest
    /\ response = NoResponse
    /\ scored = <<>>
    /\ prediction = NoValue
    /\ probability = NoValue

TrainingInit ==
    /\ self = NewFraudDetectionModel
    /\ pkl = NoFile
    /\ method = ""
    /\ returned = NoCall
    /\ preprocessed = NotPreprocessed

ServingNext ==
    \/ load_model
    \/ predict_fraud
    \/ read_root
    \/ health_check
    \/ get_info
    \/ Return

TrainingNext ==
    \/ train
    \/ evaluate
    \/ predict
    \/ save_model
    \/ FraudDetectionModel_load_model
    \/ Continue

\* the serving process of main.py
Init ==
    /\ ServingInit
    /\ TrainingInit
    /\ workload = "requests"

Next == ServingNext

Spec == Init /\ [][Next]_vars

\* one FraudDetectionModel instance and its caller
InitTrain ==
    /\ ServingInit
    /\ disk = NoFile
    /\ TrainingInit
    /\ workload = "tables"

NextTrain == TrainingNext

SpecTrain == InitTrain /\ [][NextTrain]_vars

\* the serving process and an instance side by side, on a small workload
InitAll ==
    /\ ServingInit
    /\ TrainingInit
    /\ workload = "both"

NextAll == ServingNext \/ TrainingNext

SpecAll == InitAll /\ [][NextAll]_vars

---------------------------------------------------------------------------
(* Properties of predict_fraud *)

\* the last call was predict_fraud and it returned a PredictionResponse
Scored == handler = "predict_fraud" /\ response.status = 200

\* the tier 0.30 and 0.70 give the fraction n / d
Tier(n, d) ==
    IF 10 * n < 3 * d THEN "Low"
    ELSE IF 10 * n < 7 * d THEN "Medium"
    ELSE "High"

\* the claim violates a field constraint
Violates(claim) ==
    \/ claim.claim_amount < 0
    \/ claim.claim_age < 0
    \/ claim.monthly_premium < 0
    \/ claim.witnesses < 0
    \/ claim.policy_duration <= 0
    \/ claim.claimant_age \notin 0..130
    \/ \E f \in {"police_report", "injury_claim", "property_claim", "vehicle_claim"} :
           claim[f] \notin {0, 1}

\* s is the lower-case string t but for the case of its letters
EqualIgnoringCase(s, t) ==
    /\ Len(s) = Len(t)
    /\ \A i \in 1..Len(s) :
          \/ s[i] = t[i]
          \/ \E n \in 1..Len(UpperCase) : UpperCase[n] = s[i] /\ LowerCase[n] = t[i]

\* C1: for every probability p the classifier returns, risk_level is Low exactly
\* when p < 0.30, Medium exactly when 0.30 <= p < 0.70 and High exactly when
\* p >= 0.70, so that every p has one tier, 0.30 is Medium and 0.70 is High.
C1_RiskTiers ==
    Scored =>
        /\ response.body.risk_level \in {"Low", "Medium", "High"}
        /\ response.body.risk_level = "Low" <=> 10 * probability < 3 * PScale
        /\ response.body.risk_level = "Medium" <=>
               (3 * PScale <= 10 * probability /\ 10 * probability < 7 * PScale)
        /\ response.body.risk_level = "High" <=> 10 * probability >= 7 * PScale

\* a probability of exactly 0.30 was returned and got Medium
C1_AtThreshold ==
    /\ Scored
    /\ 10 * probability = 3 * PScale
    /\ response.body.risk_level = "Medium"

\* C2 as stated: the returned fraud_probability (in ten-thousandths) lies in
\* [0, 1] and risk_level is the tier the thresholds give that returned value.
C2_TierOfReturned ==
    Scored =>
        /\ response.body.fraud_probability \in 0..10000
        /\ response.body.risk_level = Tier(response.body.fraud_probability, 10000)

\* C2 amended: the returned fraud_probability is p rounded to four decimals and
\* lies in [0, 1]; risk_level is the tier of the unrounded p, and it is the tier
\* of the returned value too unless that value is exactly 0.3000 or 0.7000.
C2_TierOfUnrounded ==
    Scored =>
        /\ response.body.fraud_probability \in 0..10000
        /\ 2 * Abs(response.body.fraud_probability * PScale - 10000 * probability) <= PScale
        /\ response.body.risk_level = Tier(probability, PScale)
        /\ response.body.risk_level # Tier(response.body.fraud_probability, 10000)
               => response.body.fraud_probability \in {3000, 7000}

\* a probability below 0.30 was returned as 0.3000 with the tier Low
C2_RoundedOntoThreshold ==
    /\ Scored
    /\ response.body.fraud_probability = 3000
    /\ response.body.risk_level = "Low"

\* C3: with the model global None, every predict_fraud call fails with 500
\* "Model not loaded": no vector is scored, no PredictionResponse is returned,
\* the process stays up, and the failure is not the 400 of the try block.
C3_ModelUnavailable ==
    (handler = "predict_fraud" /\ model = None) =>
        /\ response.status = 500
        /\ response.detail = "Model not loaded"
        /\ response.body = <<>>
        /\ scored = <<>>
        /\ response.status # 400
        /\ phase # "failed"

\* a call was answered while the process serves with nothing loaded
C3_AnsweredWithoutModel ==
    /\ handler = "predict_fraud"
    /\ phase = "serving"
    /\ model = None
    /\ response.status = 500

\* C4: a claim that violates a field constraint, sent while a classifier that
\* takes the serving vector is loaded, is rejected: the call fails, returns no
\* PredictionResponse, and the vector never reaches the classifier.
C4_InvalidRejected ==
    (/\ handler = "predict_fraud"
     /\ model \in Artifacts
     /\ model.n_features_in = Len(ServingFeatureOrder)
     /\ Violates(request)) =>
        /\ response.status \in {400, 422}
        /\ response.body = <<>>
        /\ scored = <<>>

\* C5: the auto, home and health flags handed to the classifier are 1 exactly
\* when claim_type is that word in any case; at most one is 1; for any other
\* string all three are 0 and the call returns a PredictionResponse whenever
\* the classifier takes vectors of this width at all.
C5_TypeFlags ==
    (handler = "predict_fraud" /\ scored # <<>>) =>
        /\ scored[1][11] = 1 <=> EqualIgnoringCase(request.claim_type, AUTO)
        /\ scored[1][12] = 1 <=> EqualIgnoringCase(request.claim_type, HOME)
        /\ scored[1][13] = 1 <=> EqualIgnoringCase(request.claim_type, HEALTH)
        /\ \A j \in 11..13 : scored[1][j] \in {0, 1}
        /\ scored[1][11] + scored[1][12] + scored[1][13] <= 1
        /\ (\A t \in {AUTO, HOME, HEALTH} : ~EqualIgnoringCase(request.claim_type, t))
               => /\ \A j \in 11..13 : scored[1][j] = 0
                  /\ response.status = 200 \/ model.n_features_in # Len(scored[1])

\* a claim of type scooter got a PredictionResponse with the three flags 0
C5_ScooterScored ==
    /\ Scored
    /\ request.claim_type = SCOOTER
    /\ \A j \in 11..13 : scored[1][j] = 0

\* C8: fraud_detected is true exactly when the predicted class is 1; the message
\* is the fraud alert with p * 100 when it is true and the legitimate-claim
\* text with (1 - p) * 100 when it is false, both to one decimal.
C8_VerdictFields ==
    Scored =>
        /\ response.body.fraud_detected <=> prediction = 1
        /\ response.body.fraud_detected =>
              /\ response.body.message.text = "Fraud Alert! Confidence"
              /\ 2 * Abs(response.body.message.tenths * PScale - 1000 * probability)
                     <= PScale
        /\ ~response.body.fraud_detected =>
              /\ response.body.message.text = "Claim appears legitimate. Confidence"
              /\ 2 * Abs(response.body.message.tenths * PScale
                             - 1000 * (PScale - probability)) <= PScale

\* class 0 was predicted with a probability in the Medium tier
C8_LegitimateAtMedium ==
    /\ Scored
    /\ prediction = 0
    /\ ~response.body.fraud_detected
    /\ response.body.risk_level = "Medium"
    /\ response.body.message.tenths = 600

---------------------------------------------------------------------------
(* Properties of FraudDetectionModel *)

\* train returned on a table that has the ClaimData fields
Trained ==
    /\ method = "train"
    /\ returned = [kind |-> "None"]
    /\ preprocessed.X.columns = RecordColumns

\* C6: the vector predict_fraud builds has the dimension and the feature order
\* of the vectors train fitted the classifier on, for a table with the
\* ClaimData fields.
C6_SameFeatureOrder ==
    Trained =>
        /\ self.model.n_features_in_ = Len(FeatureVector(ExampleClaim))
        /\ Len(self.feature_columns) = Len(ServingFeatureOrder)
        /\ self.feature_columns = ServingFeatureOrder

\* C7: load_model after save_model of a trained instance returns a scorer that
\* holds the label encoders, scaler, feature order and classifier of the
\* instance, and predicts for every table what the instance predicts.
C7_RoundTrip ==
    (method = "load_model" /\ self.model # None /\ pkl = self.model) =>
        /\ returned.kind = "loaded"
        /\ returned.object = self
        /\ \A X \in Tables : PredictWith(returned.object, X) = PredictResult(self, X).returned

\* C10: when preprocess_data runs with fit=False, each missing numeric cell is
\* filled with the column's mean of the training table, and each cell is
\* standardized with the training mean and variance.
C10_TrainingMeanImputed ==
    (preprocessed.called /\ ~preprocessed.fit /\ ~preprocessed.raised) =>
        \A i \in 1..Len(preprocessed.X.rows), j \in 1..Len(preprocessed.X.columns) :
            /\ (preprocessed.X.dtypes[j] = "number" /\ IsNaN(preprocessed.X.rows[i][j]))
                   => preprocessed.X_filled.rows[i][j] = self.scaler.mean_[j]
            /\ preprocessed.X_scaled[i][j] =
                   Standardize(preprocessed.X_filled.rows[i][j],
                               self.scaler.mean_[j], self.scaler.var_[j])

---------------------------------------------------------------------------
(* Properties of both *)

\* C9: the model global changes only in the startup hook and no handler call
\* changes it; evaluate and predict leave the instance's label_encoders,
\* scaler, feature_columns and model as they were.
C9_ArtifactReadOnly ==
    [][/\ model' # model => (phase = "imported" /\ phase' # "imported")
       /\ (handler = "" /\ handler' \in {"predict_fraud", "health_check",
                                         "read_root", "get_info"})
              => model' = model
       /\ (method = "" /\ method' \in {"evaluate", "predict"})
              => /\ self'.label_encoders = self.label_encoders
                 /\ self'.scaler = self.scaler
                 /\ self'.feature_columns = self.feature_columns
                 /\ self'.model = self.model]_vars

\* evaluate returned metrics for a fitted instance while an artifact is loaded
C9_Evaluated ==
    /\ method = "evaluate"
    /\ returned.kind = "metrics"
    /\ self.scaler.fitted
    /\ model # None

=============================================================================
